---- MODULE Spec2Model ----
(***************************************************************************)
(* Rule-based validation engine of the network design service:             *)
(*   app/validation/rule_base.py      RuleResult, ValidationRule,          *)
(*                                    CompositeRule, ConditionalRule       *)
(*   app/validation/rule_registry.py  RuleRegistry                         *)
(*   app/validation/rule_loader.py    load_all_rules, ensure_rules_loaded  *)
(*   app/validation/rules/topology_rules.py                                *)
(*                NoSinglePointOfFailureRule, MeshFullConnectivityRule     *)
(*   app/agents/validation_agent.py   ValidationAgent                      *)
(*   app/api/routes/validation.py     POST /validate, /validate-by-id      *)
(*   app/middleware/rate_limiter.py   RateLimitMiddleware                  *)
(* Scores are fixed-point numbers: a score s of the program is the integer *)
(* s * Scale here, a combined score is carried at ten times that scale.    *)
(***************************************************************************)
EXTENDS Integers, Sequences, FiniteSets, TLC

\* ---------------------------------------------------------------- bounds
\* number of distinct rule ids (rule classes) that exist in a run
NumRuleIds == 2
\* longest explicit rule-id list handed to execute_rules
MaxIdList == 2
\* number of administrative registry calls in a run of the registry
MaxRegistryOps == 5
\* largest number of components and of connections of a design
MaxComponents == 2
MaxConnections == 2
\* longest list of child rules handed to a CompositeRule
MaxChildren == 2
\* number of worker threads that construct a ValidationAgent, and number of
\* constructions each of them makes
NumWorkers == 2
MaxConstructions == 2
\* number of registry calls that interleave with one run of execute_rules
MaxInterleaved == 2
\* the clock of the rate limiter: ticks to a minute, and the last tick of a run
TicksPerMinute == 2
MaxTicks == 4
\* largest requests_per_minute handed to RateLimitMiddleware; requests_per_hour
\* goes up to twice as much
MaxRate == 2

\* ------------------------------------------------------------- constants
None == "None"
\* the score 1.0 in fixed point
Scale == 1000

RuleIds == 1..NumRuleIds
\* an id no rule carries, for explicit id lists that name an unknown rule
UnknownId == NumRuleIds + 1

RuleSeverity == {"critical", "error", "warning", "info"}
RuleCategory == {"capacity", "protocol", "topology", "security",
                 "compliance", "performance", "cost", "best_practice"}
ValidationSeverity == {"info", "warning", "error", "critical"}
ValidationCategory == {"capacity", "protocol", "compliance", "topology",
                       "security", "performance", "redundancy", "scalability"}

\* categories and tag lists of the rule objects handed to register
InputCategories == {"capacity", "protocol"}
InputTagLists == {{}, {"basic"}}
AllTags == UNION InputTagLists

VARIABLES
    rules,        \* RuleRegistry._rules: id -> rule, in insertion order
    categories,   \* RuleRegistry._categories: category -> list of ids
    tags,         \* RuleRegistry._tags: tag -> list of ids
    regOps,       \* administrative registry calls made so far
    prior,        \* what the administrative caller got back from the call before its last
    ret,          \* the last call of a registry method that writes, and its return value
    loader,       \* position of the worker thread that runs load_all_rules
    pc,           \* position of the request in flight
    req,          \* the request: entry point, mode, design, execute_rules filter
    selected,     \* execute_rules: the local list "rules" after selection
    rulesAtSelection, \* the registry's rules when the selection was made
    results,      \* execute_rules: the local list "results"
    invoked,      \* the validate calls made for this request and how each ended
    assessor,     \* progress of the llm_service.generate call
    det,          \* what _deterministic_validation produced
    out,          \* how the called operation ended (value returned or exception)
    response,     \* HTTP status the route answered with
    agents,       \* the ValidationAgent constructions under way, one per worker thread
    limiter       \* RateLimitMiddleware: its buckets, the clock, the requests let through

regVars == <<rules, categories, tags>>
runVars == <<pc, req, selected, rulesAtSelection, results, invoked, assessor, det, out, response>>
vars == <<rules, categories, tags, regOps, prior, ret, loader, pc, req, selected, rulesAtSelection,
          results, invoked, assessor, det, out, response, agents, limiter>>

\* ------------------------------------------------------- list helpers
InSeq(x, s) == \E i \in DOMAIN s : s[i] = x

\* list.remove(x): drops the first occurrence of x
ListRemove(s, x) ==
    IF ~InSeq(x, s) THEN s
    ELSE LET k == CHOOSE i \in DOMAIN s : s[i] = x /\ \A j \in 1..(i-1) : s[j] # x
         IN  SubSeq(s, 1, k-1) \o SubSeq(s, k+1, Len(s))

RECURSIVE SumOver(_, _)
SumOver(f, S) ==
    IF S = {} THEN 0
    ELSE LET x == CHOOSE y \in S : TRUE IN f[x] + SumOver(f, S \ {x})

\* ------------------------------------------------------- rule objects
\* ValidationRule.__init__: a new rule object is enabled
NewRule(id, cat, tgs) ==
    [rule_id |-> id, category |-> cat, tags |-> tgs, enabled |-> TRUE]

InputRules == {NewRule(id, c, t) : id \in RuleIds, c \in InputCategories, t \in InputTagLists}

\* ------------------------------------------------------- registry reads
RegisteredIds(rs) == {rs[i].rule_id : i \in DOMAIN rs}
IndexOf(rs, id) == CHOOSE i \in DOMAIN rs : rs[i].rule_id = id

get_rule(rs, id) == IF id \in RegisteredIds(rs) THEN rs[IndexOf(rs, id)] ELSE None

get_all_rules(rs) == rs

\* get_enabled_rules, had it returned every rule
get_enabled_rules_every(rs) == rs

get_enabled_rules(rs) == SelectSeq(rs, LAMBDA r : r.enabled)

get_rules_by_category(rs, cats, c) ==
    LET ids == IF c \in DOMAIN cats THEN cats[c] ELSE <<>>
        kept == SelectSeq(ids, LAMBDA id : id \in RegisteredIds(rs))
    IN  [i \in DOMAIN kept |-> get_rule(rs, kept[i])]

get_rules_by_tag(rs, tgs, t) ==
    LET ids == IF t \in DOMAIN tgs THEN tgs[t] ELSE <<>>
        kept == SelectSeq(ids, LAMBDA id : id \in RegisteredIds(rs))
    IN  [i \in DOMAIN kept |-> get_rule(rs, kept[i])]

get_statistics(rs, cats, tgs) ==
    LET enabled_count == Len(get_enabled_rules(rs))
    IN  [total_rules    |-> Len(rs),
         enabled_rules  |-> enabled_count,
         disabled_rules |-> Len(rs) - enabled_count,
         categories     |-> [c \in DOMAIN cats |-> Len(cats[c])],
         tags           |-> [t \in DOMAIN tgs |-> Len(tgs[t])]]

\* ------------------------------------------------------- registry writes
\* the index update of register, had it appended without looking
IndexAddAlways(index, key, id) ==
    LET base == IF key \in DOMAIN index THEN index ELSE index @@ (key :> <<>>)
    IN  [base EXCEPT ![key] = Append(@, id)]

\* the index update of register: create the key, append the id if absent
IndexAdd(index, key, id) ==
    LET base == IF key \in DOMAIN index THEN index ELSE index @@ (key :> <<>>)
    IN  [base EXCEPT ![key] = IF InSeq(id, @) THEN @ ELSE Append(@, id)]

\* the index update of unregister: remove the id under the key if present
IndexDrop(index, key, id) ==
    IF key \in DOMAIN index /\ InSeq(id, index[key])
    THEN [index EXCEPT ![key] = ListRemove(@, id)]
    ELSE index

RECURSIVE IndexAddAll(_, _, _)
IndexAddAll(index, keys, id) ==
    IF keys = {} THEN index
    ELSE LET k == CHOOSE x \in keys : TRUE
         IN  IndexAddAll(IndexAdd(index, k, id), keys \ {k}, id)

RECURSIVE IndexDropAll(_, _, _)
IndexDropAll(index, keys, id) ==
    IF keys = {} THEN index
    ELSE LET k == CHOOSE x \in keys : TRUE
         IN  IndexDropAll(IndexDrop(index, k, id), keys \ {k}, id)

\* self._rules[rule_id] = rule: a dict keeps the position of an existing key
RulesPut(rs, rule) ==
    IF rule.rule_id \in RegisteredIds(rs)
    THEN [rs EXCEPT ![IndexOf(rs, rule.rule_id)] = rule]
    ELSE Append(rs, rule)

\* del self._rules[rule_id]
RulesDel(rs, id) == SelectSeq(rs, LAMBDA r : r.rule_id # id)

\* rule.enable() or rule.disable(), had it reached every registered rule
SetEnabledEvery(rs, ids, flag) ==
    [i \in DOMAIN rs |-> IF ids # {} THEN [rs[i] EXCEPT !.enabled = flag] ELSE rs[i]]

\* rule.enable() or rule.disable() on the rules named by ids
SetEnabled(rs, ids, flag) ==
    [i \in DOMAIN rs |-> IF rs[i].rule_id \in ids THEN [rs[i] EXCEPT !.enabled = flag] ELSE rs[i]]

\* what a caller of the registry got back: the method, its arguments (no id
\* is 0, no category is "none") and the value returned
Returned(op, id, c, value) == [op |-> op, id |-> id, category |-> c, value |-> value]
NoCall == Returned("none", 0, "none", None)

register(rule) ==
    /\ rules' = RulesPut(rules, rule)
    /\ categories' = IndexAdd(categories, rule.category, rule.rule_id)
    /\ tags' = IndexAddAll(tags, rule.tags, rule.rule_id)
    /\ ret' = Returned("register", rule.rule_id, rule.category, None)

\* unregister, had it gone on to clean the indices for an id it does not hold
unregister_any(id) ==
    IF id \notin RegisteredIds(rules)
    THEN /\ ret' = Returned("unregister", id, "none", TRUE)
         /\ categories' = [c \in DOMAIN categories |-> ListRemove(categories[c], id)]
         /\ tags' = [t \in DOMAIN tags |-> ListRemove(tags[t], id)]
         /\ UNCHANGED rules
    ELSE LET rule == get_rule(rules, id)
         IN  /\ categories' = IndexDrop(categories, rule.category, id)
             /\ tags' = IndexDropAll(tags, rule.tags, id)
             /\ rules' = RulesDel(rules, id)
             /\ ret' = Returned("unregister", id, "none", TRUE)

unregister(id) ==
    IF id \notin RegisteredIds(rules)
    THEN /\ ret' = Returned("unregister", id, "none", FALSE)
         /\ UNCHANGED regVars
    ELSE LET rule == get_rule(rules, id)
         IN  /\ categories' = IndexDrop(categories, rule.category, id)
             /\ tags' = IndexDropAll(tags, rule.tags, id)
             /\ rules' = RulesDel(rules, id)
             /\ ret' = Returned("unregister", id, "none", TRUE)

enable_rule(id) ==
    IF id \in RegisteredIds(rules)
    THEN /\ rules' = SetEnabled(rules, {id}, TRUE)
         /\ ret' = Returned("enable_rule", id, "none", TRUE)
         /\ UNCHANGED <<categories, tags>>
    ELSE /\ ret' = Returned("enable_rule", id, "none", FALSE)
         /\ UNCHANGED regVars

disable_rule(id) ==
    IF id \in RegisteredIds(rules)
    THEN /\ rules' = SetEnabled(rules, {id}, FALSE)
         /\ ret' = Returned("disable_rule", id, "none", TRUE)
         /\ UNCHANGED <<categories, tags>>
    ELSE /\ ret' = Returned("disable_rule", id, "none", FALSE)
         /\ UNCHANGED regVars

enable_category(c) ==
    LET found == get_rules_by_category(rules, categories, c)
    IN  /\ rules' = SetEnabled(rules, RegisteredIds(found), TRUE)
        /\ ret' = Returned("enable_category", 0, c, Len(found))
        /\ UNCHANGED <<categories, tags>>

disable_category(c) ==
    LET found == get_rules_by_category(rules, categories, c)
    IN  /\ rules' = SetEnabled(rules, RegisteredIds(found), FALSE)
        /\ ret' = Returned("disable_category", 0, c, Len(found))
        /\ UNCHANGED <<categories, tags>>

clear ==
    /\ rules' = <<>>
    /\ categories' = <<>>
    /\ tags' = <<>>
    /\ ret' = Returned("clear", 0, "none", None)

\* ------------------------------------------------------- requests
ValidModes == {"strict", "standard", "lenient"}
Modes == ValidModes \cup {"relaxed"}

NoFilter == [categories |-> [none |-> TRUE, items |-> {}],
             tags       |-> [none |-> TRUE, items |-> {}],
             rule_ids   |-> [none |-> TRUE, items |-> <<>>]]

\* a design, as far as the engine looks at it: the rules applicable to it
Designs == [applicable : SUBSET RuleIds]

NoRequest == [entry |-> "none", mode |-> "none", design |-> [applicable |-> {}],
              filter |-> NoFilter]
NoValue == [kind |-> "none"]

\* no ValidationAgent is being constructed; no RateLimitMiddleware is installed
NoAgents == <<>>
NoLimiter == [kind |-> "none"]

IdleRun ==
    /\ pc = "idle"
    /\ req = NoRequest
    /\ selected = <<>>
    /\ rulesAtSelection = <<>>
    /\ results = <<>>
    /\ invoked = <<>>
    /\ assessor = "not_called"
    /\ det = NoValue
    /\ out = NoValue
    /\ response = 0

\* ------------------------------------------------------- rule outcomes
\* how a call of rule.validate(design) can end: it raises, or it returns a
\* RuleResult whose passed flag, score and severity the rule body chooses
ScoreSamples == {0, 700, 1000}

Raises == [raised |-> TRUE, passed |-> FALSE, score |-> 0, severity |-> "error"]
Returns(p, sc, sev) == [raised |-> FALSE, passed |-> p, score |-> sc, severity |-> sev]

Outcomes == {Raises} \cup {Returns(p, sc, sev) : p \in BOOLEAN, sc \in ScoreSamples, sev \in RuleSeverity}
PipelineOutcomes == {Raises, Returns(TRUE, 1000, "info"), Returns(FALSE, 700, "warning")}

\* the concrete rules build their result from their own id, name and category
ReturnedResult(rule, o) ==
    [rule_id |-> rule.rule_id, rule_name |-> rule.rule_id, category |-> rule.category,
     severity |-> o.severity, passed |-> o.passed, score |-> o.score]

\* the except branch of execute_rules, had it kept the default score of a pass
ErrorResultFullScore(rule) ==
    [rule_id |-> rule.rule_id, rule_name |-> rule.rule_id, category |-> rule.category,
     severity |-> "error", passed |-> FALSE, score |-> Scale]

\* the except branch of execute_rules
ErrorResult(rule) ==
    [rule_id |-> rule.rule_id, rule_name |-> rule.rule_id, category |-> rule.category,
     severity |-> "error", passed |-> FALSE, score |-> 0]

\* ------------------------------------------------------- execute_rules
is_applicable(rule, design) == rule.rule_id \in design.applicable

\* Python truth value of an optional list argument: None and [] are false
Truthy(arg) == ~arg.none /\ arg.items # {}
TruthyList(arg) == ~arg.none /\ Len(arg.items) > 0

\* the selection of execute_rules without its applicability filter
SelectRulesAnyDesign(rs, design, f) ==
    LET named == SelectSeq(f.rule_ids.items, LAMBDA rid : rid \in RegisteredIds(rs))
        start == IF TruthyList(f.rule_ids)
                 THEN [i \in DOMAIN named |-> get_rule(rs, named[i])]
                 ELSE get_enabled_rules(rs)
        byCategory == IF Truthy(f.categories)
                      THEN SelectSeq(start, LAMBDA r : r.category \in f.categories.items)
                      ELSE start
    IN  IF Truthy(f.tags)
        THEN SelectSeq(byCategory, LAMBDA r : r.tags \cap f.tags.items # {})
        ELSE byCategory

SelectRules(rs, design, f) ==
    LET named == SelectSeq(f.rule_ids.items, LAMBDA rid : rid \in RegisteredIds(rs))
        start == IF TruthyList(f.rule_ids)
                 THEN [i \in DOMAIN named |-> get_rule(rs, named[i])]
                 ELSE get_enabled_rules(rs)
        byCategory == IF Truthy(f.categories)
                      THEN SelectSeq(start, LAMBDA r : r.category \in f.categories.items)
                      ELSE start
        byTag == IF Truthy(f.tags)
                 THEN SelectSeq(byCategory, LAMBDA r : r.tags \cap f.tags.items # {})
                 ELSE byCategory
    IN  SelectSeq(byTag, LAMBDA r : is_applicable(r, design))

\* one pass of the loop body of execute_rules for the rule and the way its
\* validate call ended
RuleStep(rs, rule, o) ==
    Append(rs, IF o.raised THEN ErrorResult(rule) ELSE ReturnedResult(rule, o))

\* the call of execute_rules up to its first await: the selection
StartExecute(entry, mode, design, f) ==
    /\ req' = [entry |-> entry, mode |-> mode, design |-> design, filter |-> f]
    /\ selected' = SelectRules(rules, design, f)
    /\ rulesAtSelection' = rules
    /\ pc' = "running"
    /\ UNCHANGED <<regVars, regOps, prior, ret, loader, agents, limiter, results, invoked, assessor, det, out, response>>

\* the loop of execute_rules, had it taken the next rule from the registry
\* as it is now instead of from its own list
RunRuleWithLiveSelection(outcomes) ==
    /\ pc = "running"
    /\ Len(results) < Len(selected)
    /\ LET live == SelectRules(rules, req.design, req.filter)
           rule == IF Len(results) < Len(live) THEN live[Len(results) + 1]
                   ELSE selected[Len(results) + 1]
       IN  \E o \in outcomes :
             /\ results' = RuleStep(results, rule, o)
             /\ invoked' = Append(invoked, [rule_id |-> rule.rule_id, outcome |-> o])
    /\ UNCHANGED <<regVars, regOps, prior, ret, loader, agents, limiter, pc, req, selected, rulesAtSelection, assessor, det, out, response>>

\* await rule.validate(design) for the next selected rule
RunRuleWith(outcomes) ==
    /\ pc = "running"
    /\ Len(results) < Len(selected)
    /\ LET rule == selected[Len(results) + 1]
       IN  \E o \in outcomes :
             /\ results' = RuleStep(results, rule, o)
             /\ invoked' = Append(invoked, [rule_id |-> rule.rule_id, outcome |-> o])
    /\ UNCHANGED <<regVars, regOps, prior, ret, loader, agents, limiter, pc, req, selected, rulesAtSelection, assessor, det, out, response>>

\* ------------------------------------------------------- the loaded rule set
\* categories of the rule classes of the loaded rule set, by position
CatalogueCategories == <<"capacity", "topology", "protocol", "security", "compliance">>
CatalogueCategory(id) == CatalogueCategories[((id - 1) % Len(CatalogueCategories)) + 1]
CatalogueTags(id) == IF id % 2 = 1 THEN {"basic"} ELSE {"basic", "pci"}

RECURSIVE LoadInto(_, _)
\* load_all_rules: instantiate and register every rule class, in order
LoadInto(reg, id) ==
    IF id > NumRuleIds THEN reg
    ELSE LET rule == NewRule(id, CatalogueCategory(id), CatalogueTags(id))
         IN  LoadInto([rules      |-> RulesPut(reg.rules, rule),
                       categories |-> IndexAdd(reg.categories, rule.category, id),
                       tags       |-> IndexAddAll(reg.tags, rule.tags, id)], id + 1)

LoadedRegistry == LoadInto([rules |-> <<>>, categories |-> <<>>, tags |-> <<>>], 1)

\* load_all_rules has not been called (_auto_loaded is false) or has returned
LoaderIdle == [pos |-> 0, step |-> "idle"]
LoaderDone == [pos |-> NumRuleIds + 1, step |-> "done"]

\* ------------------------------------------------- pipeline specification
CategoryFilters == {[none |-> TRUE, items |-> {}], [none |-> FALSE, items |-> {}],
                    [none |-> FALSE, items |-> {"capacity"}],
                    [none |-> FALSE, items |-> {"topology", "security"}]}
TagFilters == {[none |-> TRUE, items |-> {}], [none |-> FALSE, items |-> {"pci"}]}

RECURSIVE SeqsUpTo(_, _)
SeqsUpTo(S, n) ==
    IF n = 0 THEN {<<>>}
    ELSE LET shorter == SeqsUpTo(S, n - 1)
         IN  shorter \cup {Append(q, x) : q \in shorter, x \in S}

IdFilters == {[none |-> TRUE, items |-> <<>>]} \cup
             {[none |-> FALSE, items |-> q] : q \in SeqsUpTo(RuleIds \cup {UnknownId}, MaxIdList)}
Filters == [categories : CategoryFilters, tags : TagFilters, rule_ids : IdFilters]

InitLoaded ==
    /\ rules = LoadedRegistry.rules
    /\ categories = LoadedRegistry.categories
    /\ tags = LoadedRegistry.tags
    /\ regOps = 0
    /\ prior = NoCall
    /\ ret = NoCall
    /\ loader = LoaderDone
    /\ agents = NoAgents
    /\ limiter = NoLimiter
    /\ IdleRun

\* a caller of the registry runs execute_rules with a filter
ExecuteRules ==
    /\ pc = "idle"
    /\ \E design \in Designs, f \in Filters : StartExecute("execute_rules", "none", design, f)

RunPipelineRule == RunRuleWith(PipelineOutcomes)

\* return results
ReturnResults ==
    /\ pc = "running"
    /\ req.entry = "execute_rules"
    /\ Len(results) = Len(selected)
    /\ out' = [kind |-> "results", value |-> results]
    /\ pc' = "done"
    /\ UNCHANGED <<regVars, regOps, prior, ret, loader, agents, limiter, req, selected, rulesAtSelection, results, invoked, assessor, det, response>>

\* enable_rule and disable_rule called while a request may be in flight
AdminEnableRule ==
    /\ \E id \in RuleIds : enable_rule(id)
    /\ UNCHANGED <<regOps, prior, loader, agents, limiter, runVars>>

AdminDisableRule ==
    /\ \E id \in RuleIds : disable_rule(id)
    /\ UNCHANGED <<regOps, prior, loader, agents, limiter, runVars>>

NextExecute ==
    \/ ExecuteRules
    \/ RunPipelineRule
    \/ ReturnResults
    \/ AdminEnableRule
    \/ AdminDisableRule

SpecExecute == InitLoaded /\ [][NextExecute]_vars

\* ------------------------------------------------------- RuleResult
\* RuleResult.to_validation_severity: a lookup with default WARNING
SeverityMapping == [s \in RuleSeverity |->
    CASE s = "critical" -> "critical"
      [] s = "error"    -> "error"
      [] s = "warning"  -> "warning"
      [] s = "info"     -> "info"]

to_validation_severity(sev) ==
    IF sev \in DOMAIN SeverityMapping THEN SeverityMapping[sev] ELSE "warning"

\* the members of ValidationCategory that the dict literal of
\* to_validation_category names as values; it is evaluated on every call
CategoryMappingTargets == {"capacity", "protocol", "topology", "security",
                           "compliance", "performance", "cost", "best_practice"}

\* RuleResult.to_validation_category: building the mapping reads an
\* attribute of the enum for every target; a name that is no member of
\* ValidationCategory raises AttributeError before any lookup is done
to_validation_category(cat) ==
    IF ~(CategoryMappingTargets \subseteq ValidationCategory) THEN "AttributeError"
    ELSE IF cat \in CategoryMappingTargets THEN cat
    ELSE "topology"

\* ------------------------------------------------------- ValidationAgent
Raised(e) == [kind |-> "error", error |-> e]

RuleValidationResult(r) ==
    [rule_id |-> r.rule_id, rule_name |-> r.rule_name,
     category |-> to_validation_category(r.category),
     passed |-> r.passed, score |-> r.score]

\* the issue built for a failed result; rule_id is left at its default
ValidationIssue(r) ==
    [category |-> to_validation_category(r.category),
     severity |-> to_validation_severity(r.severity),
     title |-> r.rule_name, rule_id |-> None]

MapSeq(s, Op(_)) == [i \in DOMAIN s |-> Op(s[i])]

CountWhere(s, Test(_)) == Cardinality({i \in DOMAIN s : Test(s[i])})

CriticalCategories == {"capacity", "topology", "security"}

\* ValidationAgent._deterministic_validation after execute_rules returned
\* rule_results
deterministic_validation(rule_results) ==
    IF \E i \in DOMAIN rule_results :
          to_validation_category(rule_results[i].category) = "AttributeError"
    THEN Raised("AttributeError")
    ELSE IF \E i \in DOMAIN rule_results : rule_results[i].score \notin 0..Scale
    THEN Raised("ValidationError")
    ELSE
    LET InCategory(c) == MapSeq(SelectSeq(rule_results, LAMBDA r : r.category = c),
                                RuleValidationResult)
        capacity_results   == InCategory("capacity")
        protocol_results   == InCategory("protocol")
        compliance_results == InCategory("compliance")
        topology_results   == InCategory("topology")
        security_results   == InCategory("security")
        all_issues == MapSeq(SelectSeq(rule_results, LAMBDA r : ~r.passed), ValidationIssue)
        all_results == capacity_results \o protocol_results \o compliance_results
                         \o topology_results \o security_results
        total_rules == Len(all_results)
        rules_passed == CountWhere(all_results, LAMBDA r : r.passed)
        rules_failed == total_rules - rules_passed
        overall_score == IF total_rules > 0 THEN (rules_passed * Scale) \div total_rules ELSE 0
        critical_results == SelectSeq(all_results, LAMBDA r : r.category \in CriticalCategories)
        passed == IF critical_results # <<>>
                  THEN \A i \in DOMAIN critical_results : critical_results[i].passed
                  ELSE TRUE
    IN  [kind |-> "deterministic",
         overall_score |-> overall_score,
         passed |-> passed,
         capacity_results |-> capacity_results,
         protocol_results |-> protocol_results,
         compliance_results |-> compliance_results,
         topology_results |-> topology_results,
         critical_issues |-> SelectSeq(all_issues, LAMBDA i : i.severity = "critical"),
         errors |-> SelectSeq(all_issues, LAMBDA i : i.severity = "error"),
         warnings |-> SelectSeq(all_issues, LAMBDA i : i.severity = "warning"),
         total_rules_executed |-> total_rules,
         rules_passed |-> rules_passed,
         rules_failed |-> rules_failed]

\* _llm_validation, had its except branch reported the values of a success
llm_validation_same_default(generated) ==
    [overall_score |-> 850, confidence |-> 900,
     recommendations |-> IF generated
                         THEN <<"Add network monitoring tools", "Consider backup connectivity">>
                         ELSE <<>>,
     model_used |-> IF generated THEN "primary" ELSE "none"]

\* ValidationAgent._llm_validation, by the way llm_service.generate ended
llm_validation(generated) ==
    IF generated
    THEN [overall_score |-> 850, confidence |-> 900,
          recommendations |-> <<"Add network monitoring tools", "Consider backup connectivity">>,
          model_used |-> "primary"]
    ELSE [overall_score |-> 700, confidence |-> 500,
          recommendations |-> <<>>,
          model_used |-> "none"]

\* the threshold table, had strict shared the bar of standard
ThresholdStrictAsStandard(mode) ==
    CASE mode = "strict"   -> 8500
      [] mode = "standard" -> 8500
      [] mode = "lenient"  -> 7500
      [] OTHER             -> 8500

\* thresholds.get(mode, 0.85), at ten times Scale
Threshold(mode) ==
    CASE mode = "strict"   -> 9000
      [] mode = "standard" -> 8500
      [] mode = "lenient"  -> 7500
      [] OTHER             -> 8500

\* _combine_validation_results, had it weighted the two tracks evenly
combine_validation_results_even(deterministic, llm, mode) ==
    LET overall_score == (deterministic.overall_score * 5) + (llm.overall_score * 5)
        threshold == Threshold(mode)
        passed == overall_score >= threshold /\ Len(deterministic.critical_issues) = 0
    IN  [kind |-> "result",
         overall_score |-> overall_score,
         deterministic_score |-> deterministic.overall_score,
         llm_score |-> llm.overall_score,
         deterministic_validation |-> deterministic,
         llm_validation |-> llm,
         passed |-> passed,
         validation_threshold |-> threshold,
         all_issues |-> deterministic.critical_issues \o deterministic.errors
                          \o deterministic.warnings,
         critical_count |-> Len(deterministic.critical_issues),
         error_count |-> Len(deterministic.errors),
         warning_count |-> Len(deterministic.warnings),
         recommendations |-> llm.recommendations]

\* ValidationAgent._combine_validation_results; overall_score is carried at
\* ten times Scale (the weights 0.7 and 0.3 are 7 and 3)
combine_validation_results(deterministic, llm, mode) ==
    LET overall_score == (deterministic.overall_score * 7) + (llm.overall_score * 3)
        threshold == Threshold(mode)
        passed == overall_score >= threshold /\ Len(deterministic.critical_issues) = 0
    IN  [kind |-> "result",
         overall_score |-> overall_score,
         deterministic_score |-> deterministic.overall_score,
         llm_score |-> llm.overall_score,
         deterministic_validation |-> deterministic,
         llm_validation |-> llm,
         passed |-> passed,
         validation_threshold |-> threshold,
         all_issues |-> deterministic.critical_issues \o deterministic.errors
                          \o deterministic.warnings,
         critical_count |-> Len(deterministic.critical_issues),
         error_count |-> Len(deterministic.errors),
         warning_count |-> Len(deterministic.warnings),
         recommendations |-> llm.recommendations]

\* what the route answers once the agent has raised
RouteError(entry) == IF entry = "agent" THEN 0 ELSE 500

\* ------------------------------------------------------- entry points
\* ValidationAgent.validate_design called by code of the service
AgentValidateDesign ==
    /\ pc = "idle"
    /\ \E design \in Designs, mode \in Modes : StartExecute("agent", mode, design, NoFilter)

\* POST /validate
PostValidate ==
    /\ pc = "idle"
    /\ \E design \in Designs, mode \in Modes :
         IF mode \notin ValidModes
         THEN /\ req' = [entry |-> "validate", mode |-> mode, design |-> design, filter |-> NoFilter]
              /\ response' = 400
              /\ pc' = "done"
              /\ UNCHANGED <<regVars, regOps, prior, ret, loader, agents, limiter, selected, rulesAtSelection, results, invoked, assessor, det, out>>
         ELSE StartExecute("validate", mode, design, NoFilter)

\* POST /validate-by-id/{design_id}
PostValidateById ==
    /\ pc = "idle"
    /\ \E found \in BOOLEAN, design \in Designs, mode \in Modes :
         IF ~found
         THEN /\ req' = [entry |-> "validate_by_id", mode |-> mode,
                         design |-> [applicable |-> {}], filter |-> NoFilter]
              /\ response' = 404
              /\ pc' = "done"
              /\ UNCHANGED <<regVars, regOps, prior, ret, loader, agents, limiter, selected, rulesAtSelection, results, invoked, assessor, det, out>>
         ELSE StartExecute("validate_by_id", mode, design, NoFilter)

RunRule == RunRuleWith(Outcomes)

\* execute_rules has returned: the rest of _deterministic_validation, then
\* validate_design goes on to _llm_validation and awaits generate
DeterministicValidation ==
    /\ pc = "running"
    /\ req.entry \in {"agent", "validate", "validate_by_id"}
    /\ Len(results) = Len(selected)
    /\ LET d == deterministic_validation(results)
       IN  IF d.kind = "error"
           THEN /\ det' = d
                /\ out' = d
                /\ response' = RouteError(req.entry)
                /\ pc' = "done"
                /\ UNCHANGED assessor
           ELSE /\ det' = d
                /\ assessor' = "called"
                /\ pc' = "assessing"
                /\ UNCHANGED <<out, response>>
    /\ UNCHANGED <<regVars, regOps, prior, ret, loader, agents, limiter, req, selected, rulesAtSelection, results, invoked>>

\* generate has ended; the results are combined and validate_design returns;
\* a route then stores the result and writes the audit entry
FinishValidation(generated) ==
    /\ pc = "assessing"
    /\ assessor' = IF generated THEN "returned" ELSE "failed"
    /\ out' = combine_validation_results(det, llm_validation(generated), req.mode)
    /\ \E stored \in BOOLEAN :
         response' = IF req.entry = "agent" THEN 0
                     ELSE IF stored THEN 200 ELSE 500
    /\ pc' = "done"
    /\ UNCHANGED <<regVars, regOps, prior, ret, loader, agents, limiter, req, selected, rulesAtSelection, results, invoked, det>>

AssessorReturns == FinishValidation(TRUE)
AssessorFails == FinishValidation(FALSE)

\* rules disabled by the operators before the request arrives
InitValidation ==
    /\ \E off \in SUBSET RuleIds : rules = SetEnabled(LoadedRegistry.rules, off, FALSE)
    /\ categories = LoadedRegistry.categories
    /\ tags = LoadedRegistry.tags
    /\ regOps = 0
    /\ prior = NoCall
    /\ ret = NoCall
    /\ loader = LoaderDone
    /\ agents = NoAgents
    /\ limiter = NoLimiter
    /\ IdleRun

Next ==
    \/ AgentValidateDesign
    \/ PostValidate
    \/ PostValidateById
    \/ RunRule
    \/ DeterministicValidation
    \/ AssessorReturns
    \/ AssessorFails

Spec == InitValidation /\ [][Next]_vars

\* The same program with its scheduling: the event loop resumes the request
\* whenever the rule it awaits has ended, so the steps made by the program's
\* own code are taken once they are possible. _llm_validation awaits
\* llm_service.generate without a deadline of its own (no wait_for, no timer),
\* so the request goes on only when that call ends, and nothing in the
\* program makes it end.
OrchestratorStep == RunRule \/ DeterministicValidation

SpecScheduled == InitValidation /\ [][Next]_vars /\ WF_vars(OrchestratorStep)

\* ------------------------------------------------------- cancellation
\* The caller cancels the task of the request: asyncio raises CancelledError
\* inside the task at the await where it is suspended, which is the await of
\* a rule's validate or the await of llm_service.generate.
Cancelled == [raised |-> TRUE, passed |-> FALSE, score |-> 0, severity |-> "cancelled"]

\* an except clause that caught every exception
ExceptExceptionCatchesAll(e) == TRUE

\* "except Exception": CancelledError derives from BaseException, the errors
\* of the rules, of the models and of the providers derive from Exception
ExceptExceptionCatches(e) == e # "CancelledError"

\* cancelled while execute_rules awaits a rule
CancelDuringRule ==
    /\ pc = "running"
    /\ Len(results) < Len(selected)
    /\ LET rule == selected[Len(results) + 1]
       IN  /\ invoked' = Append(invoked, [rule_id |-> rule.rule_id, outcome |-> Cancelled])
           /\ IF ExceptExceptionCatches("CancelledError")
              THEN /\ results' = Append(results, ErrorResult(rule))
                   /\ UNCHANGED <<pc, out, response>>
              ELSE /\ out' = Raised("CancelledError")
                   /\ response' = 0
                   /\ pc' = "done"
                   /\ UNCHANGED results
    /\ UNCHANGED <<regVars, regOps, prior, ret, loader, agents, limiter, req, selected, rulesAtSelection, assessor, det>>

\* cancelled while _llm_validation awaits llm_service.generate
CancelDuringAssessor ==
    /\ pc = "assessing"
    /\ assessor' = "cancelled"
    /\ IF ExceptExceptionCatches("CancelledError")
       THEN /\ out' = combine_validation_results(det, llm_validation(FALSE), req.mode)
            /\ \E stored \in BOOLEAN :
                 response' = IF req.entry = "agent" THEN 0
                             ELSE IF stored THEN 200 ELSE 500
       ELSE /\ out' = Raised("CancelledError")
            /\ response' = 0
    /\ pc' = "done"
    /\ UNCHANGED <<regVars, regOps, prior, ret, loader, agents, limiter, req, selected, rulesAtSelection, results, invoked, det>>

NextCancellable ==
    \/ Next
    \/ CancelDuringRule
    \/ CancelDuringAssessor

SpecCancellable == InitValidation /\ [][NextCancellable]_vars

\* ------------------------------------------------- registry specification
InitRegistry ==
    /\ rules = <<>>
    /\ categories = <<>>
    /\ tags = <<>>
    /\ regOps = 0
    /\ prior = NoCall
    /\ ret = NoCall
    /\ loader = LoaderIdle
    /\ agents = NoAgents
    /\ limiter = NoLimiter
    /\ IdleRun

\* one more administrative call, while the run's budget lasts
AdminCall ==
    /\ regOps < MaxRegistryOps
    /\ regOps' = regOps + 1
    /\ prior' = ret
    /\ UNCHANGED <<loader, agents, limiter, runVars>>

Register == AdminCall /\ \E rule \in InputRules : register(rule)
Unregister == AdminCall /\ \E id \in RuleIds : unregister(id)
EnableRule == AdminCall /\ \E id \in RuleIds : enable_rule(id)
DisableRule == AdminCall /\ \E id \in RuleIds : disable_rule(id)
EnableCategory == AdminCall /\ \E c \in InputCategories : enable_category(c)
DisableCategory == AdminCall /\ \E c \in InputCategories : disable_category(c)
Clear == AdminCall /\ clear

NextRegistry ==
    \/ Register
    \/ Unregister
    \/ EnableRule
    \/ DisableRule
    \/ EnableCategory
    \/ DisableCategory
    \/ Clear

SpecRegistry == InitRegistry /\ [][NextRegistry]_vars

\* ------------------------------------------------------- rule classes
\* ids of two rule classes of the loaded rule set (the id is the class name)
SpofRuleId == NumRuleIds + 2
MeshRuleId == NumRuleIds + 3
RuleClassIds == {SpofRuleId, MeshRuleId}

TopologyTypes == {"mesh", "star"}
RedundancyLevels == {"low", "high"}

\* MeshFullConnectivityRule.is_applicable
MeshFullConnectivityRule_is_applicable(topology_type) == topology_type = "mesh"

\* a design with the fields the two rule classes read; NoSinglePointOfFailureRule
\* keeps the is_applicable of the base class
NetworkDesigns ==
    {[applicable |-> others \cup {SpofRuleId} \cup
                     (IF MeshFullConnectivityRule_is_applicable(t) THEN {MeshRuleId} ELSE {}),
      topology_type |-> t, components |-> n, connections |-> k,
      redundancy_level |-> lvl, has_single_point_of_failure |-> spof] :
        others \in SUBSET RuleIds, t \in TopologyTypes, n \in 0..MaxComponents,
        k \in 0..MaxConnections, lvl \in RedundancyLevels, spof \in BOOLEAN}

\* NoSinglePointOfFailureRule.validate
NoSinglePointOfFailureRule_validate(design) ==
    IF design.redundancy_level \notin {"high", "critical"}
    THEN Returns(TRUE, Scale, "info")
    ELSE LET has_spof == design.has_single_point_of_failure
         IN  Returns(~has_spof,
                     IF has_spof THEN 0 ELSE Scale,
                     IF has_spof THEN "critical" ELSE "info")

\* MeshFullConnectivityRule.validate; int(expected * 0.8) is (expected * 8) \div 10
MeshFullConnectivityRule_validate(design) ==
    LET n == design.components
    IN  IF n = 0 THEN Returns(FALSE, 0, "error")
        ELSE LET expected_connections == (n * (n - 1)) \div 2
                 actual_connections == design.connections
                 min_connections == (expected_connections * 8) \div 10
                 passed == actual_connections >= min_connections
                 coverage == IF expected_connections > 0
                             THEN (actual_connections * Scale) \div expected_connections
                             ELSE 0
             IN  Returns(passed, coverage, IF passed THEN "info" ELSE "warning")

\* the ways rule.validate(design) can end, by rule class
validate(rule, design) ==
    CASE rule.rule_id = SpofRuleId -> {NoSinglePointOfFailureRule_validate(design)}
      [] rule.rule_id = MeshRuleId -> {MeshFullConnectivityRule_validate(design)}
      [] OTHER -> PipelineOutcomes

\* the loaded rule set with the two topology rule classes registered
RuleSetRegistry ==
    LET put(reg, rule) == [rules      |-> RulesPut(reg.rules, rule),
                           categories |-> IndexAdd(reg.categories, rule.category, rule.rule_id),
                           tags       |-> IndexAddAll(reg.tags, rule.tags, rule.rule_id)]
    IN  put(put(LoadedRegistry,
                NewRule(SpofRuleId, "topology", {"topology", "redundancy", "spof", "critical"})),
            NewRule(MeshRuleId, "topology", {"topology", "mesh", "connectivity"}))

\* ----------------------------------------------- rule class specification
\* the rule classes switched off by the operators before the request arrives
InitRuleSet ==
    /\ \E off \in SUBSET RuleClassIds : rules = SetEnabled(RuleSetRegistry.rules, off, FALSE)
    /\ categories = RuleSetRegistry.categories
    /\ tags = RuleSetRegistry.tags
    /\ regOps = 0
    /\ prior = NoCall
    /\ ret = NoCall
    /\ loader = LoaderDone
    /\ agents = NoAgents
    /\ limiter = NoLimiter
    /\ IdleRun

\* ValidationAgent.validate_design called with a network design
ValidateNetworkDesign ==
    /\ pc = "idle"
    /\ \E design \in NetworkDesigns, mode \in ValidModes :
         StartExecute("agent", mode, design, NoFilter)

\* await rule.validate(design) for the next selected rule, the rule classes
\* computing their result from the design
RunRuleOnDesign ==
    /\ pc = "running"
    /\ Len(results) < Len(selected)
    /\ LET rule == selected[Len(results) + 1]
       IN  \E o \in validate(rule, req.design) :
             /\ results' = RuleStep(results, rule, o)
             /\ invoked' = Append(invoked, [rule_id |-> rule.rule_id, outcome |-> o])
    /\ UNCHANGED <<regVars, regOps, prior, ret, loader, agents, limiter, pc, req, selected, rulesAtSelection, assessor, det, out, response>>

NextRules ==
    \/ ValidateNetworkDesign
    \/ RunRuleOnDesign
    \/ DeterministicValidation
    \/ AssessorReturns
    \/ AssessorFails

SpecRules == InitRuleSet /\ [][NextRules]_vars

\* ------------------------------------------------- loader specification
\* The first request that needs a ValidationAgent has it built by the
\* dependency get_validation_agent, a plain function, which the framework runs
\* on a worker thread; ValidationAgent.__init__ calls ensure_rules_loaded, so
\* load_all_rules and its register calls run on that thread while the event
\* loop thread serves other requests. A thread can be preempted between any
\* two statements of register.
InitLoader ==
    /\ rules = <<>>
    /\ categories = <<>>
    /\ tags = <<>>
    /\ regOps = 0
    /\ prior = NoCall
    /\ ret = NoCall
    /\ loader = LoaderIdle
    /\ agents = NoAgents
    /\ limiter = NoLimiter
    /\ IdleRun

\* the rule object load_all_rules instantiates at position pos of ALL_RULES
LoaderRule == NewRule(loader.pos, CatalogueCategory(loader.pos), CatalogueTags(loader.pos))

\* ensure_rules_loaded finds _auto_loaded false and enters load_all_rules
EnsureRulesLoaded ==
    /\ loader = LoaderIdle
    /\ agents = NoAgents
    /\ limiter = NoLimiter
    /\ loader' = IF NumRuleIds >= 1 THEN [pos |-> 1, step |-> "rules"] ELSE LoaderDone
    /\ UNCHANGED <<regVars, regOps, prior, ret, agents, limiter, runVars>>

\* register on the worker thread: self._rules[rule_id] = rule
LoaderPutRule ==
    /\ loader.step = "rules"
    /\ rules' = RulesPut(rules, LoaderRule)
    /\ loader' = [loader EXCEPT !.step = "categories"]
    /\ UNCHANGED <<categories, tags, regOps, prior, ret, agents, limiter, runVars>>

\* register on the worker thread: the category index
LoaderIndexCategory ==
    /\ loader.step = "categories"
    /\ categories' = IndexAdd(categories, LoaderRule.category, LoaderRule.rule_id)
    /\ loader' = [loader EXCEPT !.step = "tags"]
    /\ UNCHANGED <<rules, tags, regOps, prior, ret, agents, limiter, runVars>>

\* register on the worker thread: the tag index, then register returns and
\* load_all_rules goes on to the next rule class, or returns
LoaderIndexTags ==
    /\ loader.step = "tags"
    /\ tags' = IndexAddAll(tags, LoaderRule.tags, LoaderRule.rule_id)
    /\ ret' = Returned("register", LoaderRule.rule_id, LoaderRule.category, None)
    /\ loader' = IF loader.pos < NumRuleIds
                 THEN [pos |-> loader.pos + 1, step |-> "rules"]
                 ELSE LoaderDone
    /\ UNCHANGED <<rules, categories, regOps, prior, agents, limiter, runVars>>

\* a lookup made by a route on the event loop thread, and what it got
Lookup(kind, value) ==
    /\ out' = [kind |-> "lookup", method |-> kind, value |-> value]
    /\ UNCHANGED <<regVars, regOps, prior, ret, loader, agents, limiter, pc, req, selected,
                   rulesAtSelection, results, invoked, assessor, det, response>>

LookupRule == \E id \in RuleIds : Lookup("get_rule", <<id, get_rule(rules, id)>>)
LookupByCategory ==
    \E c \in RuleCategory : Lookup("get_rules_by_category", <<c, get_rules_by_category(rules, categories, c)>>)
LookupByTag ==
    \E t \in {"basic", "pci"} : Lookup("get_rules_by_tag", <<t, get_rules_by_tag(rules, tags, t)>>)
LookupEnabled == Lookup("get_enabled_rules", get_enabled_rules(rules))
LookupStatistics == Lookup("get_statistics", get_statistics(rules, categories, tags))

NextLoader ==
    \/ EnsureRulesLoaded
    \/ LoaderPutRule
    \/ LoaderIndexCategory
    \/ LoaderIndexTags
    \/ LookupRule
    \/ LookupByCategory
    \/ LookupByTag
    \/ LookupEnabled
    \/ LookupStatistics

SpecLoader == InitLoader /\ [][NextLoader]_vars

\* ------------------------------------------- construction specification
\* Every request that needs a ValidationAgent has a new one built by
\* get_validation_agent on a worker thread, so the constructions of requests
\* that arrive together run side by side. Here `loader` holds the flag
\* _auto_loaded alone (LoaderIdle: false, LoaderDone: true) and agents[w]
\* holds where worker w stands: the position in ALL_RULES and the statement
\* of register it is about to run ("none" when it is not inside
\* ValidationAgent.__init__), and the number of agents it has built.
Workers == 1..NumWorkers

WorkerIdle(built) == [pos |-> 0, step |-> "none", built |-> built]

InitConstruct ==
    /\ rules = <<>>
    /\ categories = <<>>
    /\ tags = <<>>
    /\ regOps = 0
    /\ prior = NoCall
    /\ ret = NoCall
    /\ loader = LoaderIdle
    /\ agents = [w \in Workers |-> WorkerIdle(0)]
    /\ limiter = NoLimiter
    /\ IdleRun

\* the rule object a worker instantiates at its position of ALL_RULES
WorkerRule(w) == NewRule(agents[w].pos, CatalogueCategory(agents[w].pos), CatalogueTags(agents[w].pos))

\* load_all_rules has registered its last rule class: ensure_rules_loaded
\* sets _auto_loaded and __init__ returns the agent
AgentBuilt(w) == [agents EXCEPT ![w] = WorkerIdle(agents[w].built + 1)]

\* ValidationAgent.__init__ up to the test of _auto_loaded in
\* ensure_rules_loaded: with the flag set the agent is built at once,
\* without it the worker enters load_all_rules
ConstructAgent ==
    /\ \E w \in Workers :
         /\ agents[w].step = "none"
         /\ agents[w].built < MaxConstructions
         /\ agents' = IF loader = LoaderDone \/ NumRuleIds < 1
                       THEN AgentBuilt(w)
                       ELSE [agents EXCEPT ![w] = [pos |-> 1, step |-> "rules", built |-> @.built]]
         /\ loader' = IF loader = LoaderDone \/ NumRuleIds >= 1 THEN loader ELSE LoaderDone
    /\ UNCHANGED <<regVars, regOps, prior, ret, limiter, runVars>>

\* register on worker w: self._rules[rule_id] = rule
WorkerPutRule ==
    /\ \E w \in Workers :
         /\ agents[w].step = "rules"
         /\ rules' = RulesPut(rules, WorkerRule(w))
         /\ agents' = [agents EXCEPT ![w].step = "categories"]
    /\ UNCHANGED <<categories, tags, regOps, prior, ret, loader, limiter, runVars>>

\* register on worker w: the category index
WorkerIndexCategory ==
    /\ \E w \in Workers :
         /\ agents[w].step = "categories"
         /\ categories' = IndexAdd(categories, WorkerRule(w).category, WorkerRule(w).rule_id)
         /\ agents' = [agents EXCEPT ![w].step = "tags"]
    /\ UNCHANGED <<rules, tags, regOps, prior, ret, loader, limiter, runVars>>

\* register on worker w: the tag index; then register returns and
\* load_all_rules goes on to the next rule class, or returns
WorkerIndexTags ==
    /\ \E w \in Workers :
         /\ agents[w].step = "tags"
         /\ tags' = IndexAddAll(tags, WorkerRule(w).tags, WorkerRule(w).rule_id)
         /\ ret' = Returned("register", WorkerRule(w).rule_id, WorkerRule(w).category, None)
         /\ IF agents[w].pos < NumRuleIds
            THEN /\ agents' = [agents EXCEPT ![w] = [pos |-> @.pos + 1, step |-> "rules",
                                                      built |-> @.built]]
                 /\ UNCHANGED loader
            ELSE /\ agents' = AgentBuilt(w)
                 /\ loader' = LoaderDone
    /\ UNCHANGED <<rules, categories, regOps, prior, limiter, runVars>>

\* the admin routes enable and disable rules on the event loop thread while
\* workers construct agents
NextConstruct ==
    \/ ConstructAgent
    \/ WorkerPutRule
    \/ WorkerIndexCategory
    \/ WorkerIndexTags
    \/ AdminEnableRule
    \/ AdminDisableRule

SpecConstruct == InitConstruct /\ [][NextConstruct]_vars

\* ---------------------------------------- applicability specification
\* A registered rule is any subclass of ValidationRule, and is_applicable is
\* a method a subclass overrides: for a design it returns true, returns
\* false, or raises. The designs say for each rule which of the three it is.
CheckedDesigns ==
    {d \in [applicable : SUBSET RuleIds, raising : SUBSET RuleIds] :
        d.applicable \cap d.raising = {}}

\* the rules on which the applicability filter of execute_rules calls
\* is_applicable: those left by the id list, the category filter and the
\* tag filter
ReachApplicability(rs, f) == SelectRules(rs, [applicable |-> RegisteredIds(rs)], f)

\* execute_rules called with a filter for such a design: the comprehension
\* `[r for r in rules if r.is_applicable(design)]` stands outside the
\* try/except of the loop, so an exception of is_applicable leaves
\* execute_rules before any rule is evaluated
ExecuteRulesChecked ==
    /\ pc = "idle"
    /\ \E design \in CheckedDesigns, f \in Filters :
         IF \E i \in DOMAIN ReachApplicability(rules, f) :
               ReachApplicability(rules, f)[i].rule_id \in design.raising
         THEN /\ req' = [entry |-> "execute_rules", mode |-> "none", design |-> design,
                         filter |-> f]
              /\ rulesAtSelection' = rules
              /\ out' = Raised("Exception")
              /\ pc' = "done"
              /\ UNCHANGED <<regVars, regOps, prior, ret, loader, agents, limiter, selected,
                             results, invoked, assessor, det, response>>
         ELSE StartExecute("execute_rules", "none", design, f)

NextApplicability ==
    \/ ExecuteRulesChecked
    \/ RunPipelineRule
    \/ ReturnResults

SpecApplicability == InitLoaded /\ [][NextApplicability]_vars

\* ------------------------------------------------ snapshot specification
\* The admin routes and other callers of the registry run on the event loop
\* between two awaits of a run of execute_rules: rules are registered,
\* unregistered, enabled and disabled while the run is under way.
Interleaved ==
    /\ pc = "running"
    /\ regOps < MaxInterleaved
    /\ regOps' = regOps + 1
    /\ UNCHANGED <<prior, loader, agents, limiter, runVars>>

\* a new instance of a loaded class is registered
InterleavedRegister ==
    Interleaved /\ \E id \in RuleIds : register(NewRule(id, CatalogueCategory(id), CatalogueTags(id)))
InterleavedUnregister == Interleaved /\ \E id \in RuleIds : unregister(id)
InterleavedEnable == Interleaved /\ \E id \in RuleIds : enable_rule(id)
InterleavedDisable == Interleaved /\ \E id \in RuleIds : disable_rule(id)

\* the filters of the runs: none, or an explicit id list of registered ids
SnapshotFilters ==
    {NoFilter} \cup
    {[NoFilter EXCEPT !.rule_ids = [none |-> FALSE, items |-> q]] :
        q \in SeqsUpTo(RuleIds, MaxIdList) \ {<<>>}}

\* execute_rules called while some rules are disabled
ExecuteSnapshot ==
    /\ pc = "idle"
    /\ \E design \in Designs, f \in SnapshotFilters :
         StartExecute("execute_rules", "none", design, f)

\* a rule was disabled before the run
DisableBeforeRun ==
    /\ pc = "idle"
    /\ \E id \in RuleIds : get_rule(rules, id).enabled /\ disable_rule(id)
    /\ UNCHANGED <<regOps, prior, loader, agents, limiter, runVars>>

NextSnapshot ==
    \/ DisableBeforeRun
    \/ ExecuteSnapshot
    \/ RunPipelineRule
    \/ ReturnResults
    \/ InterleavedRegister
    \/ InterleavedUnregister
    \/ InterleavedEnable
    \/ InterleavedDisable

SpecSnapshot == InitLoaded /\ [][NextSnapshot]_vars

\* ------------------------------------------------------- CompositeRule
\* the id of a CompositeRule object (the class name)
CompositeRuleId == NumRuleIds + 4

\* CompositeRule.__init__ and get_metadata: a rule object that keeps the list
\* of its children (self.rules) and the flag require_all
NewCompositeRule(children, require_all) ==
    [rule_id |-> CompositeRuleId, category |-> "topology", tags |-> {"composite"},
     enabled |-> TRUE, children |-> children, require_all |-> require_all]

RECURSIVE ChildrenToRun(_, _, _)
\* the loop of validate, had it left out the is_enabled test
ChildrenToRunEnabledOrNot(children, design, k) ==
    IF k > Len(children) THEN <<>>
    ELSE (IF is_applicable(children[k], design) THEN <<k>> ELSE <<>>)
         \o ChildrenToRun(children, design, k + 1)

\* the loop of validate from child k on: the positions of the children it
\* awaits, those with rule.is_enabled() and rule.is_applicable(design)
ChildrenToRun(children, design, k) ==
    IF k > Len(children) THEN <<>>
    ELSE (IF children[k].enabled /\ is_applicable(children[k], design) THEN <<k>> ELSE <<>>)
         \o ChildrenToRun(children, design, k + 1)

RECURSIVE MaxScore(_)
\* max(r.score for r in results), results not empty
MaxScore(rs) ==
    IF Len(rs) = 1 THEN rs[1].score
    ELSE LET m == MaxScore(Tail(rs)) IN IF rs[1].score >= m THEN rs[1].score ELSE m

RECURSIVE ScoreSum(_)
\* sum(r.score for r in results)
ScoreSum(rs) == IF rs = <<>> THEN 0 ELSE rs[1].score + ScoreSum(Tail(rs))

\* CompositeRule.validate for the ways ends[k] in which the validate call of
\* child k ends when it is awaited: the children awaited, in order, and how
\* the call of the composite ends. A child that raises ends the loop: the
\* exception leaves validate and the children after it are not awaited.
CompositeRule_validate(rule, design, ends) ==
    LET due == ChildrenToRun(rule.children, design, 1)
        raising == {i \in DOMAIN due : ends[due[i]].raised}
        last == IF raising = {} THEN Len(due)
                ELSE CHOOSE i \in raising : \A j \in raising : i <= j
        awaited == SubSeq(due, 1, last)
        results_ == [i \in DOMAIN awaited |-> ends[awaited[i]]]
    IN  [awaited |-> awaited,
         outcome |->
            IF raising # {} THEN Raises
            ELSE IF results_ = <<>> THEN Returns(TRUE, Scale, "warning")
            ELSE IF rule.require_all
            THEN Returns(\A i \in DOMAIN results_ : results_[i].passed,
                         ScoreSum(results_) \div Len(results_), "warning")
            ELSE Returns(\E i \in DOMAIN results_ : results_[i].passed,
                         MaxScore(results_), "warning")]

\* ------------------------------------------------- composite specification
\* the child rule objects: rules of the loaded classes, enabled or disabled
ChildRules ==
    {[NewRule(id, CatalogueCategory(id), CatalogueTags(id)) EXCEPT !.enabled = e] :
        id \in RuleIds, e \in BOOLEAN}

\* a registry that holds one CompositeRule
InitComposite ==
    /\ \E children \in SeqsUpTo(ChildRules, MaxChildren), require_all \in BOOLEAN :
         rules = <<NewCompositeRule(children, require_all)>>
    /\ categories = ("topology" :> <<CompositeRuleId>>)
    /\ tags = ("composite" :> <<CompositeRuleId>>)
    /\ regOps = 0
    /\ prior = NoCall
    /\ ret = NoCall
    /\ loader = LoaderIdle
    /\ agents = NoAgents
    /\ limiter = NoLimiter
    /\ IdleRun

\* execute_rules called for a design; CompositeRule keeps the is_applicable
\* of the base class
ExecuteComposite ==
    /\ pc = "idle"
    /\ \E others \in SUBSET RuleIds :
         StartExecute("execute_rules", "none",
                      [applicable |-> others \cup {CompositeRuleId}], NoFilter)

\* await rule.validate(design) for the composite
RunCompositeRule ==
    /\ pc = "running"
    /\ Len(results) < Len(selected)
    /\ LET rule == selected[Len(results) + 1]
       IN  \E ends \in [DOMAIN rule.children -> PipelineOutcomes] :
             LET call == CompositeRule_validate(rule, req.design, ends)
             IN  /\ results' = RuleStep(results, rule, call.outcome)
                 /\ invoked' = Append(invoked, [rule_id |-> rule.rule_id,
                                                outcome |-> call.outcome,
                                                awaited |-> call.awaited,
                                                ends |-> ends])
    /\ UNCHANGED <<regVars, regOps, prior, ret, loader, agents, limiter, pc, req, selected, rulesAtSelection, assessor, det, out, response>>

NextComposite ==
    \/ ExecuteComposite
    \/ RunCompositeRule
    \/ ReturnResults

SpecComposite == InitComposite /\ [][NextComposite]_vars

\* ------------------------------------------------------- ConditionalRule
\* the id of a ConditionalRule object (the class name)
ConditionalRuleId == NumRuleIds + 5

\* what a call of condition_fn(design) yields: it raises, or it returns a
\* Python value, a bool or something else such as None
ConditionValues == {"True", "False", "None"}
ConditionEnds == ConditionValues \cup {"raises"}

\* bool(value) of a value a predicate returned
PyTruth(value) == value = "True"

\* the predicates handed to ConditionalRule: each looks at one fact of the
\* design (whether rule `on` applies to it) and ends in one way when the
\* fact holds and in one way when it does not
ConditionFns == [on : RuleIds, yes : ConditionEnds, no : ConditionEnds]

\* condition_fn(design)
condition_fn(fn, design) == IF fn.on \in design.applicable THEN fn.yes ELSE fn.no

\* ConditionalRule.__init__ and get_metadata: the object keeps the wrapped
\* rule and the predicate; its metadata, and so its category and tags, are
\* those of the wrapped rule
NewConditionalRule(rule, fn) ==
    [rule_id |-> ConditionalRuleId, category |-> rule.category, tags |-> rule.tags,
     enabled |-> TRUE, rule |-> rule, condition_fn |-> fn]

\* ConditionalRule.is_applicable: the value of the predicate, False when the
\* predicate raises
ConditionalRule_is_applicable(rule, design) ==
    LET value == condition_fn(rule.condition_fn, design)
    IN  IF value = "raises" THEN "False" ELSE value

\* validate, had it awaited the wrapped rule whatever the predicate says
ConditionalRule_validate_always(rule, design, end) ==
    [awaited |-> TRUE, raised |-> end.raised,
     result |-> IF end.raised THEN NoValue ELSE ReturnedResult(rule.rule, end)]

\* ConditionalRule.validate for the way `end` in which the validate call of
\* the wrapped rule ends when it is awaited: whether the wrapped rule was
\* awaited, whether the call raised (the exception of the wrapped rule
\* leaves validate), and the RuleResult returned otherwise (the one the
\* wrapped rule built, or the vacuous pass built here from the id of the
\* conditional rule and the category of the wrapped one)
ConditionalRule_validate(rule, design, end) ==
    IF ~PyTruth(ConditionalRule_is_applicable(rule, design))
    THEN [awaited |-> FALSE, raised |-> FALSE,
          result |-> [rule_id |-> rule.rule_id, rule_name |-> rule.rule_id,
                      category |-> rule.rule.category,
                      severity |-> "info", passed |-> TRUE, score |-> Scale]]
    ELSE [awaited |-> TRUE, raised |-> end.raised,
          result |-> IF end.raised THEN NoValue ELSE ReturnedResult(rule.rule, end)]

\* ------------------------------------------------ conditional specification
\* a registry that holds one ConditionalRule around a rule of a loaded class
InitConditional ==
    /\ \E rule \in ChildRules, fn \in ConditionFns :
         /\ rules = <<NewConditionalRule(rule, fn)>>
         /\ categories = (rule.category :> <<ConditionalRuleId>>)
         /\ tags = [t \in rule.tags |-> <<ConditionalRuleId>>]
    /\ regOps = 0
    /\ prior = NoCall
    /\ ret = NoCall
    /\ loader = LoaderIdle
    /\ agents = NoAgents
    /\ limiter = NoLimiter
    /\ IdleRun

\* the designs a caller can hand over: the conditional rule applies to a
\* design exactly when its is_applicable is true of it
ConditionalDesigns(rule) ==
    {d \in [applicable : SUBSET (RuleIds \cup {ConditionalRuleId})] :
        ConditionalRuleId \in d.applicable
            <=> PyTruth(ConditionalRule_is_applicable(rule, d))}

\* rule.is_applicable(design) called on the conditional rule
CallIsApplicable ==
    /\ pc = "idle"
    /\ \E design \in ConditionalDesigns(rules[1]) :
         out' = [kind |-> "is_applicable", design |-> design,
                 value |-> ConditionalRule_is_applicable(rules[1], design)]
    /\ UNCHANGED <<regVars, regOps, prior, ret, loader, agents, limiter, pc, req, selected, rulesAtSelection, results, invoked, assessor, det, response>>

\* await rule.validate(design) called on the conditional rule
CallValidate ==
    /\ pc = "idle"
    /\ \E design \in ConditionalDesigns(rules[1]), end \in PipelineOutcomes :
         out' = [kind |-> "validate", design |-> design, end |-> end,
                 call |-> ConditionalRule_validate(rules[1], design, end)]
    /\ UNCHANGED <<regVars, regOps, prior, ret, loader, agents, limiter, pc, req, selected, rulesAtSelection, results, invoked, assessor, det, response>>

\* execute_rules called for a design
ExecuteConditional ==
    /\ pc = "idle"
    /\ \E design \in ConditionalDesigns(rules[1]) :
         StartExecute("execute_rules", "none", design, NoFilter)

\* await rule.validate(design) for the conditional rule in the loop of
\* execute_rules
RunConditionalRule ==
    /\ pc = "running"
    /\ Len(results) < Len(selected)
    /\ LET rule == selected[Len(results) + 1]
       IN  \E end \in PipelineOutcomes :
             LET call == ConditionalRule_validate(rule, req.design, end)
             IN  /\ results' = Append(results, IF call.raised THEN ErrorResult(rule)
                                               ELSE call.result)
                 /\ invoked' = Append(invoked, [rule_id |-> rule.rule_id,
                                                outcome |-> end,
                                                call |-> call])
    /\ UNCHANGED <<regVars, regOps, prior, ret, loader, agents, limiter, pc, req, selected, rulesAtSelection, assessor, det, out, response>>

NextConditional ==
    \/ CallIsApplicable
    \/ CallValidate
    \/ ExecuteConditional
    \/ RunConditionalRule
    \/ ReturnResults

SpecConditional == InitConditional /\ [][NextConditional]_vars

\* ------------------------------------------------- RateLimitMiddleware
\* timedelta(minutes=1) and timedelta(hours=1), in ticks of the clock
Minute == TicksPerMinute
Hour == 60 * Minute

\* client identifiers as _get_client_identifier builds them
Clients == {"ip:10.0.0.1", "api_key:k1"}

\* the paths dispatch lets through unchecked, and a path it checks
ExemptPaths == {"/health", "/api/health", "/"}
Paths == {"/health", "/api/v1/validation/validate"}

\* the value a defaultdict bucket starts with: count 0, reset_time None
NewBucket == [count |-> 0, reset_time |-> 0, unset |-> TRUE]

\* the reset at the head of _check_rate_limit for a window of the length
ResetIfDue(bucket, current_time, length) ==
    IF bucket.unset \/ current_time > bucket.reset_time
    THEN [count |-> 0, reset_time |-> current_time + length, unset |-> FALSE]
    ELSE bucket

\* max(int((reset_time - current_time).total_seconds()), 1), in ticks
RetryAfter(bucket, current_time) ==
    IF bucket.reset_time - current_time > 1 THEN bucket.reset_time - current_time ELSE 1

\* RateLimitMiddleware._check_rate_limit(client_id) at current_time: what it
\* returns and the buckets of the client it leaves
check_rate_limit(lim, client_id, current_time) ==
    LET minute_bucket == ResetIfDue(lim.minute_buckets[client_id], current_time, Minute)
        hour_bucket == ResetIfDue(lim.hour_buckets[client_id], current_time, Hour)
    IN  IF minute_bucket.count >= lim.requests_per_minute
        THEN [is_allowed |-> FALSE, retry_after |-> RetryAfter(minute_bucket, current_time),
              minute_bucket |-> minute_bucket, hour_bucket |-> hour_bucket]
        ELSE IF hour_bucket.count >= lim.requests_per_hour
        THEN [is_allowed |-> FALSE, retry_after |-> RetryAfter(hour_bucket, current_time),
              minute_bucket |-> minute_bucket, hour_bucket |-> hour_bucket]
        ELSE [is_allowed |-> TRUE, retry_after |-> 0,
              minute_bucket |-> [minute_bucket EXCEPT !.count = @ + 1],
              hour_bucket |-> [hour_bucket EXCEPT !.count = @ + 1]]

\* --------------------------------------------- rate limiter specification
\* RateLimitMiddleware.__init__ with the limits it is given; `now` is the
\* clock datetime.utcnow() reads, `passed` lists for each client the times of
\* the checked requests handed on to call_next, `last` the latest response
InitLimiter ==
    /\ \E rpm \in 1..MaxRate, rph \in 1..(2 * MaxRate) :
         limiter = [kind |-> "limiter",
                    requests_per_minute |-> rpm,
                    requests_per_hour |-> rph,
                    minute_buckets |-> [c \in Clients |-> NewBucket],
                    hour_buckets |-> [c \in Clients |-> NewBucket],
                    now |-> 0,
                    passed |-> [c \in Clients |-> <<>>],
                    last |-> [client |-> "none", path |-> "none", status |-> 0,
                              retry_after |-> 0]]
    /\ rules = <<>>
    /\ categories = <<>>
    /\ tags = <<>>
    /\ regOps = 0
    /\ prior = NoCall
    /\ ret = NoCall
    /\ loader = LoaderIdle
    /\ agents = NoAgents
    /\ IdleRun

\* time passes
Tick ==
    /\ limiter.now < MaxTicks
    /\ limiter' = [limiter EXCEPT !.now = @ + 1]
    /\ UNCHANGED <<regVars, regOps, prior, ret, loader, agents, runVars>>

\* RateLimitMiddleware.dispatch for a request of a client: a health path goes
\* to call_next unchecked; any other path is checked and answered with 429,
\* or handed on to call_next
Dispatch ==
    /\ \E client_id \in Clients, path \in Paths :
         IF path \in ExemptPaths
         THEN limiter' = [limiter EXCEPT !.last = [client |-> client_id, path |-> path,
                                                   status |-> 200, retry_after |-> 0]]
         ELSE LET check == check_rate_limit(limiter, client_id, limiter.now)
              IN  limiter' = [limiter EXCEPT
                     !.minute_buckets[client_id] = check.minute_bucket,
                     !.hour_buckets[client_id] = check.hour_bucket,
                     !.passed[client_id] = IF check.is_allowed THEN Append(@, limiter.now) ELSE @,
                     !.last = [client |-> client_id, path |-> path,
                               status |-> IF check.is_allowed THEN 200 ELSE 429,
                               retry_after |-> check.retry_after]]
    /\ UNCHANGED <<regVars, regOps, prior, ret, loader, agents, runVars>>

NextLimiter ==
    \/ Tick
    \/ Dispatch

SpecLimiter == InitLimiter /\ [][NextLimiter]_vars

\* ================================================================ claims
RECURSIVE SumScores(_)
SumScores(rs) == IF rs = <<>> THEN 0 ELSE Head(rs).score + SumScores(Tail(rs))

OrchestratorEntries == {"agent", "validate", "validate_by_id"}

\* the orchestrator was entered with a mode it knows and the request is over
ValidationEnded ==
    /\ pc = "done"
    /\ req.entry \in OrchestratorEntries
    /\ req.mode \in ValidModes
    /\ response \notin {400, 404}

FailedResults(sev) == CountWhere(results, LAMBDA r : ~r.passed /\ r.severity = sev)

\* C1: execute_rules never aborts on a raising rule: every validate call made
\* so far has exactly one result, at the end there is one result per selected
\* rule; the result of a raising rule carries its id with passed = false,
\* score = 0 and severity error, and the result of any other rule is what
\* that rule returned.
C1_FailureIsolation ==
    /\ Len(results) = Len(invoked)
    /\ Len(results) <= Len(selected)
    /\ \A i \in DOMAIN results :
         /\ invoked[i].rule_id = selected[i].rule_id
         /\ results[i].rule_id = selected[i].rule_id
         /\ IF invoked[i].outcome.raised
            THEN /\ ~results[i].passed
                 /\ results[i].score = 0
                 /\ results[i].severity = "error"
            ELSE /\ results[i].passed = invoked[i].outcome.passed
                 /\ results[i].score = invoked[i].outcome.score
                 /\ results[i].severity = invoked[i].outcome.severity
    /\ (pc = "done" /\ req.entry = "execute_rules") =>
         /\ out.kind = "results"
         /\ out.value = results
         /\ Len(results) = Len(selected)

C1_Witness ==
    /\ pc = "done"
    /\ req.entry = "execute_rules"
    /\ Len(out.value) = 2
    /\ invoked[1].outcome.raised
    /\ ~invoked[2].outcome.raised

\* C2: once _deterministic_validation has run on the results of the
\* pipeline there is a DeterministicValidationResult, and its passed flag is
\* true exactly if every result of category capacity, topology or security
\* has passed.
C2_PassedIffCriticalCategoriesPassed ==
    (ValidationEnded \/ pc = "assessing") =>
        /\ det.kind = "deterministic"
        /\ det.passed <=> (\A i \in DOMAIN results :
                              results[i].category \in CriticalCategories => results[i].passed)

C4_InvalidModeRejected ==
    (req.entry \in OrchestratorEntries /\ req.mode \notin ValidModes) =>
        /\ invoked = <<>>
        /\ assessor = "not_called"
        /\ pc = "done" => (out.kind = "error" \/ response \in {400, 404})

\* C5: when the assessor call failed, validate_design has returned a
\* ValidationResult whose probabilistic part is the fallback (score 0.7,
\* confidence 0.5, no recommendations) and whose deterministic part is what
\* a successful assessor call would have left.
C5_DegradedAssessor ==
    (pc = "done" /\ assessor = "failed") =>
        /\ out.kind = "result"
        /\ out.llm_score = 700
        /\ out.llm_validation.overall_score = 700
        /\ out.llm_validation.confidence = 500
        /\ out.llm_validation.recommendations = <<>>
        /\ out.recommendations = <<>>
        /\ LET ok == combine_validation_results(deterministic_validation(results),
                                                [overall_score |-> 850, confidence |-> 900,
                                                 recommendations |-> <<>>, model_used |-> "primary"],
                                                req.mode)
           IN  /\ out.deterministic_validation = ok.deterministic_validation
               /\ out.deterministic_score = ok.deterministic_score
               /\ out.all_issues = ok.all_issues
               /\ out.critical_count = ok.critical_count
               /\ out.error_count = ok.error_count
               /\ out.warning_count = ok.warning_count

C5_Witness ==
    /\ pc = "done"
    /\ assessor = "failed"
    /\ out.kind = "result"
    /\ out.llm_score = 700

\* C6: the category index lists an id under c exactly if the id is
\* registered and the stored rule has category c, the same for the tag index;
\* total_rules is the length of get_all_rules, the category counts of the
\* statistics sum to total_rules and each tag count is the number of stored
\* rules carrying the tag.
C6_IndexConsistency ==
    /\ \A c \in RuleCategory, id \in RuleIds :
         (c \in DOMAIN categories /\ InSeq(id, categories[c]))
            <=> (id \in RegisteredIds(rules) /\ get_rule(rules, id).category = c)
    /\ \A t \in AllTags, id \in RuleIds :
         (t \in DOMAIN tags /\ InSeq(id, tags[t]))
            <=> (id \in RegisteredIds(rules) /\ t \in get_rule(rules, id).tags)
    /\ LET st == get_statistics(rules, categories, tags)
       IN  /\ st.total_rules = Len(get_all_rules(rules))
           /\ SumOver(st.categories, DOMAIN st.categories) = st.total_rules
           /\ \A t \in DOMAIN st.tags :
                st.tags[t] = CountWhere(rules, LAMBDA r : t \in r.tags)

\* C7: a finished validation has a ValidationResult whose issue list holds
\* one issue per failed result of every severity and none for a passed one,
\* so that the three counts plus the info failures are the failed results.
C7_IssuesMatchFailedResults ==
    ValidationEnded =>
        /\ out.kind = "result"
        /\ Len(out.all_issues) = CountWhere(results, LAMBDA r : ~r.passed)
        /\ \A sev \in ValidationSeverity :
             CountWhere(out.all_issues, LAMBDA i : i.severity = sev) = FailedResults(sev)
        /\ out.critical_count + out.error_count + out.warning_count + FailedResults("info")
             = CountWhere(results, LAMBDA r : ~r.passed)

\* C8: every rule whose validate execute_rules has invoked was registered,
\* enabled and applicable to the design when the selection was made.
C8_OnlyEnabledApplicableInvoked ==
    \A i \in DOMAIN invoked :
        /\ invoked[i].rule_id \in RegisteredIds(rulesAtSelection)
        /\ get_rule(rulesAtSelection, invoked[i].rule_id).enabled
        /\ invoked[i].rule_id \in req.design.applicable

\* C8 as amended: every rule whose validate execute_rules has invoked was
\* registered and applicable to the design when the selection was made, and
\* was enabled then unless the call named a non-empty explicit rule-id list.
C8_InvokedWereSelectable ==
    \A i \in DOMAIN invoked :
        /\ invoked[i].rule_id \in RegisteredIds(rulesAtSelection)
        /\ invoked[i].rule_id \in req.design.applicable
        /\ ~TruthyList(req.filter.rule_ids)
             => get_rule(rulesAtSelection, invoked[i].rule_id).enabled

C8_Witness ==
    /\ pc = "done"
    /\ TruthyList(req.filter.rule_ids)
    /\ \E i \in DOMAIN invoked :
         ~get_rule(rulesAtSelection, invoked[i].rule_id).enabled

\* C9: a finished validation has a DeterministicValidationResult whose
\* overall score is the arithmetic mean of the scores of the results the
\* pipeline returned, and 0 when it returned none.
C9_ScoreIsMeanOfRuleScores ==
    ValidationEnded =>
        /\ det.kind = "deterministic"
        /\ det.overall_score * Len(results) = SumScores(results)
        /\ Len(results) = 0 => det.overall_score = 0

C11_ScoreRange ==
    \A i \in DOMAIN results : results[i].score \in 0..Scale

\* C12: a design with redundancy level high and a single point of failure,
\* validated with NoSinglePointOfFailureRule enabled: the rule's result is a
\* failure of severity critical, the DeterministicValidationResult exists and
\* has passed = false, and the ValidationResult exists and has passed = false,
\* in every mode and whatever the other rules and the assessor did.
C12_SpofDesignFails ==
    (/\ pc = "done"
     /\ req.entry = "agent"
     /\ req.design.redundancy_level = "high"
     /\ req.design.has_single_point_of_failure
     /\ \E i \in DOMAIN selected : selected[i].rule_id = SpofRuleId)
    => /\ \E i \in DOMAIN results :
            /\ results[i].rule_id = SpofRuleId
            /\ ~results[i].passed
            /\ results[i].severity = "critical"
       /\ det.kind = "deterministic"
       /\ ~det.passed
       /\ out.kind = "result"
       /\ ~out.passed

\* the rules of category c whose enabled flag is flag
RulesOfCategory(rs, c, flag) ==
    {i \in DOMAIN rs : rs[i].category = c /\ rs[i].enabled = flag}

\* a step that is a call of the registry method op
RegistryCall(op) == regOps' = regOps + 1 /\ ret'.op = op

\* C13: enable_category(c) returns the number of rules of category c that
\* were disabled just before the call and leaves every rule of category c
\* enabled and listed by get_enabled_rules; disable_category(c) returns the
\* number of rules of category c that were enabled just before the call.
C13_CategoryCallCountsChangedRules ==
    [][/\ RegistryCall("enable_category") =>
            /\ ret'.value = Cardinality(RulesOfCategory(rules, ret'.category, FALSE))
            /\ \A j \in DOMAIN rules' :
                 rules'[j].category = ret'.category =>
                    rules'[j].enabled /\ InSeq(rules'[j], get_enabled_rules(rules'))
       /\ RegistryCall("disable_category") =>
            ret'.value = Cardinality(RulesOfCategory(rules, ret'.category, TRUE))]_vars

\* the step leaves the registry as it was apart from the enabled flag of r:
\* the same rules in the same order, the same indices
SameButEnabled(r) ==
    /\ Len(rules') = Len(rules)
    /\ \A i \in DOMAIN rules :
         /\ rules'[i] = [rules[i] EXCEPT !.enabled = rules'[i].enabled]
         /\ rules[i].rule_id # r => rules'[i] = rules[i]
    /\ categories' = categories
    /\ tags' = tags

\* C14: disable_rule(r) on a registered rule r returns true and changes
\* nothing but the enabled flag of r; enable_rule(r) called next returns
\* true, changes nothing but the enabled flag of r, and leaves r enabled, so
\* that an unfiltered execute_rules selects r for every design r applies to.
C14_DisableEnableRoundTrip ==
    [][\A r \in RegisteredIds(rules) :
         /\ (RegistryCall("disable_rule") /\ ret'.id = r) =>
               /\ ret'.value = TRUE
               /\ SameButEnabled(r)
               /\ ~get_rule(rules', r).enabled
         /\ (/\ RegistryCall("enable_rule") /\ ret'.id = r
             /\ ret = Returned("disable_rule", r, "none", TRUE)) =>
               /\ ret'.value = TRUE
               /\ SameButEnabled(r)
               /\ get_rule(rules', r).enabled
               /\ InSeq(get_rule(rules', r), get_enabled_rules(rules'))
               /\ \A d \in Designs :
                    r \in d.applicable =>
                       InSeq(get_rule(rules', r), SelectRules(rules', d, NoFilter))]_vars

\* disable_rule(r) then enable_rule(r) were called while another registered
\* rule was disabled
C14_Witness ==
    \E r \in RegisteredIds(rules), other \in RegisteredIds(rules) :
        /\ other # r
        /\ prior = Returned("disable_rule", r, "none", TRUE)
        /\ ret = Returned("enable_rule", r, "none", TRUE)
        /\ get_rule(rules, r).enabled
        /\ ~get_rule(rules, other).enabled

\* C15: enable_rule, disable_rule and unregister called with an id that is
\* not registered return false and leave the rule map, every rule's enabled
\* flag and both indices as they were.
C15_UnknownIdReturnsFalse ==
    [][\A op \in {"enable_rule", "disable_rule", "unregister"} :
         (RegistryCall(op) /\ ret'.id \notin RegisteredIds(rules)) =>
            /\ ret'.value = FALSE
            /\ rules' = rules
            /\ categories' = categories
            /\ tags' = tags]_vars

\* two of the three methods have been called in a row with ids that the
\* registry, holding a disabled rule, does not hold
C15_Witness ==
    /\ rules # <<>>
    /\ \E i \in DOMAIN rules : ~rules[i].enabled
    /\ ret.op \in {"enable_rule", "disable_rule", "unregister"}
    /\ ret.id \notin RegisteredIds(rules)
    /\ ret.value = FALSE
    /\ prior.op \in {"enable_rule", "disable_rule", "unregister"} \ {ret.op}
    /\ prior.value = FALSE

\* every registered rule is listed under its category and under each of its tags
Indexed(rs, cats, tgs) ==
    \A i \in DOMAIN rs :
        /\ rs[i].category \in DOMAIN cats
        /\ InSeq(rs[i].rule_id, cats[rs[i].category])
        /\ \A t \in rs[i].tags : t \in DOMAIN tgs /\ InSeq(rs[i].rule_id, tgs[t])

\* C16: a lookup never reads the registry between two statements of a
\* register call: whenever a lookup is made, every rule it can find in the
\* id -> rule map is listed in its category index and in its tag indices.
C16_NoTornRead ==
    [][(loader' = loader /\ out'.kind = "lookup") => Indexed(rules, categories, tags)]_vars

\* C17: a request that waits for the assessor does not wait forever: it
\* always comes to its end, whether the assessor call ends or not.
C17_BoundedWait == (pc = "assessing") ~> (pc = "done")

\* C18: once the request has been cancelled, during a rule or during the
\* assessor call, it is over, it ended with the cancellation error, no
\* ValidationResult (degraded or not) was returned and no response was sent.
C18_CancellationIsClean ==
    (assessor = "cancelled" \/ \E i \in DOMAIN invoked : invoked[i].outcome = Cancelled) =>
        /\ pc = "done"
        /\ out = Raised("CancelledError")
        /\ response = 0
        /\ (assessor = "cancelled" \/ Len(results) < Len(invoked))

\* a request was cancelled during the assessor call
C18_Witness ==
    /\ assessor = "cancelled"
    /\ det.kind = "deterministic"
    /\ out.kind = "error"

\* the same list run through in the opposite order
Reverse(s) == [i \in DOMAIN s |-> s[Len(s) + 1 - i]]

Range(s) == {s[i] : i \in DOMAIN s}

\* the two lists hold the same elements the same number of times
SameBag(s, t) ==
    /\ Len(s) = Len(t)
    /\ \A x \in Range(s) \cup Range(t) :
         Cardinality({i \in DOMAIN s : s[i] = x}) = Cardinality({i \in DOMAIN t : t[i] = x})

\* two outcomes of _deterministic_validation are results that agree on the
\* score, the verdict, the counts, the results per category and the issues
SameDeterministicResult(a, b) ==
    /\ a.kind = "deterministic"
    /\ b.kind = "deterministic"
    /\ a.overall_score = b.overall_score
    /\ a.passed = b.passed
    /\ a.total_rules_executed = b.total_rules_executed
    /\ a.rules_passed = b.rules_passed
    /\ a.rules_failed = b.rules_failed
    /\ Range(a.capacity_results) = Range(b.capacity_results)
    /\ Range(a.protocol_results) = Range(b.protocol_results)
    /\ Range(a.compliance_results) = Range(b.compliance_results)
    /\ Range(a.topology_results) = Range(b.topology_results)
    /\ SameBag(a.critical_issues \o a.errors \o a.warnings,
               b.critical_issues \o b.errors \o b.warnings)

\* C19: the deterministic validation of a design yields a result, and the
\* validation of the same design with the same rules executed in the opposite
\* order yields a result with the same score, verdict, counts, results per
\* category and issues.
C19_OrderIndependent ==
    det.kind # "none" =>
        SameDeterministicResult(det, deterministic_validation(Reverse(results)))

\* C20: a call of CompositeRule.validate that returns has awaited exactly
\* the children that are enabled and applicable to the design, in their
\* order; with no such child it returns passed = true and score 1.0; with
\* require_all it returns the conjunction of the children's passed flags and
\* the mean of their scores, without it their disjunction and the largest
\* of their scores.
C20_CompositeAggregation ==
    \A n \in DOMAIN invoked :
        LET call == invoked[n]
            rule == selected[n]
            due == {k \in DOMAIN rule.children :
                      rule.children[k].enabled /\ rule.children[k].rule_id \in req.design.applicable}
            total == SumOver([k \in due |-> call.ends[k].score], due)
        IN  ~call.outcome.raised =>
              /\ Range(call.awaited) = due
              /\ Len(call.awaited) = Cardinality(due)
              /\ \A i, j \in DOMAIN call.awaited : i < j => call.awaited[i] < call.awaited[j]
              /\ due = {} => call.outcome.passed /\ call.outcome.score = Scale
              /\ (due # {} /\ rule.require_all) =>
                    /\ call.outcome.passed <=> \A k \in due : call.ends[k].passed
                    /\ call.outcome.score * Cardinality(due) <= total
                    /\ total < (call.outcome.score + 1) * Cardinality(due)
              /\ (due # {} /\ ~rule.require_all) =>
                    /\ call.outcome.passed <=> \E k \in due : call.ends[k].passed
                    /\ \A k \in due : call.ends[k].score <= call.outcome.score
                    /\ \E k \in due : call.ends[k].score = call.outcome.score

\* a composite without require_all has awaited two children, one passing and
\* one failing, and returned passed = true with the larger score
C20_Witness ==
    /\ invoked # <<>>
    /\ ~invoked[1].outcome.raised
    /\ Len(invoked[1].awaited) = 2
    /\ invoked[1].ends[1].passed # invoked[1].ends[2].passed
    /\ ~selected[1].require_all
    /\ invoked[1].outcome.passed
    /\ invoked[1].outcome.score = Scale

\* the calls of ConditionalRule.validate made so far, directly or from the
\* loop of execute_rules: the design, the way the wrapped rule would end, and
\* what the call did
ConditionalCalls ==
    (IF out.kind = "validate"
     THEN {[design |-> out.design, end |-> out.end, call |-> out.call]} ELSE {})
    \cup {[design |-> req.design, end |-> invoked[n].outcome, call |-> invoked[n].call] :
            n \in DOMAIN invoked}

\* C21: ConditionalRule.is_applicable returns the value of the predicate for
\* the design, and false when the predicate raises; when that value is
\* false, validate returns passed = true, score 1.0 and severity info
\* without awaiting the wrapped rule; when it is true, validate awaits the
\* wrapped rule and returns exactly the result the wrapped rule returned.
C21_ConditionalShortCircuit ==
    LET rule == rules[1]
        predicate(design) == condition_fn(rule.condition_fn, design)
    IN  /\ out.kind = "is_applicable" =>
              out.value = IF predicate(out.design) = "raises" THEN "False"
                          ELSE predicate(out.design)
        /\ \A c \in ConditionalCalls :
              /\ ~PyTruth(predicate(c.design)) =>
                    /\ ~c.call.awaited
                    /\ ~c.call.raised
                    /\ c.call.result.passed
                    /\ c.call.result.score = Scale
                    /\ c.call.result.severity = "info"
              /\ PyTruth(predicate(c.design)) =>
                    /\ c.call.awaited
                    /\ c.call.raised = c.end.raised
                    /\ ~c.end.raised => c.call.result = ReturnedResult(rule.rule, c.end)

\* validate was called for a design on which the predicate raises and has
\* returned the vacuous pass without awaiting the wrapped rule
C21_Witness ==
    /\ out.kind = "validate"
    /\ condition_fn(rules[1].condition_fn, out.design) = "raises"
    /\ ~out.call.awaited
    /\ out.call.result.passed
    /\ out.call.result.severity = "info"

\* C22: a call of execute_rules evaluates exactly the rules of its starting
\* set (the enabled rules, or the registered rules named in a non-empty
\* explicit id list) that satisfy all given restrictions at once: category in
\* the category set, at least one tag in the tag set, is_applicable(design)
\* true; an id of the list that is not registered is skipped and the call
\* returns its results without error.
C22_FilterIntersection ==
    (pc # "idle" /\ req.entry = "execute_rules") =>
        LET f == req.filter
            registered == Range(rulesAtSelection)
            start == IF TruthyList(f.rule_ids)
                     THEN {r \in registered : r.rule_id \in Range(f.rule_ids.items)}
                     ELSE {r \in registered : r.enabled}
            expected == {r \in start :
                           /\ Truthy(f.categories) => r.category \in f.categories.items
                           /\ Truthy(f.tags) => r.tags \cap f.tags.items # {}
                           /\ r.rule_id \in req.design.applicable}
        IN  /\ Range(selected) = expected
            /\ pc = "done" =>
                  /\ out.kind = "results"
                  /\ {invoked[i].rule_id : i \in DOMAIN invoked} = {r.rule_id : r \in expected}

\* a call with an id list that names an unregistered id and rule 2, a
\* category set and a tag set has returned without error after evaluating rule 2 alone
C22_Witness ==
    /\ pc = "done"
    /\ req.entry = "execute_rules"
    /\ req.filter.rule_ids.items = <<UnknownId, 2>>
    /\ Truthy(req.filter.categories)
    /\ Truthy(req.filter.tags)
    /\ Len(invoked) = 1
    /\ invoked[1].rule_id = 2
    /\ out.kind = "results"

\* the number of rule classes of ALL_RULES that declare category c
ClassesOfCategory(c) == Cardinality({id \in RuleIds : CatalogueCategory(id) = c})

\* C23: once a ValidationAgent has been constructed, by whichever worker and
\* however many constructions came before or run beside it, the registry
\* holds exactly one rule per class of ALL_RULES, and get_rules_by_category
\* lists for each category as many rules as ALL_RULES has classes of it;
\* further constructions neither duplicate nor drop rules.
C23_RuleLoading ==
    (\E w \in Workers : agents[w].built >= 1) =>
        /\ Len(get_all_rules(rules)) = NumRuleIds
        /\ RegisteredIds(rules) = RuleIds
        /\ \A c \in RuleCategory :
              /\ Len(get_rules_by_category(rules, categories, c)) = ClassesOfCategory(c)
              /\ \A r \in Range(get_rules_by_category(rules, categories, c)) : r.category = c
        /\ get_statistics(rules, categories, tags).total_rules = NumRuleIds

\* one worker has built two agents while another worker, which found
\* _auto_loaded false, is registering a rule class again
C23_Witness ==
    /\ agents[1].built = 2
    /\ agents[2].step = "categories"
    /\ agents[2].pos = 1

\* C24: a validation that has ended with a failed rule result has returned a
\* ValidationResult, and the issue derived from each failed result carries
\* the rule_id of that result and the category and severity of that result.
C24_IssueBackReference ==
    ValidationEnded =>
        \A i \in DOMAIN results :
            ~results[i].passed =>
                /\ out.kind = "result"
                /\ ValidationIssue(results[i]).rule_id # None
                /\ ValidationIssue(results[i]).rule_id = results[i].rule_id
                /\ ValidationIssue(results[i]).category = results[i].category
                /\ ValidationIssue(results[i]).severity = results[i].severity

\* C25: a validation that has ended has a DeterministicValidationResult in
\* which every result the pipeline returned appears in exactly one of the
\* per-category result lists, total_rules_executed is the number of results
\* the pipeline returned, rules_passed + rules_failed = total_rules_executed,
\* and rules_failed counts every failed result.
C25_ResultsPartitionedAndCounted ==
    ValidationEnded =>
        /\ det.kind = "deterministic"
        /\ LET lists == <<det.capacity_results, det.protocol_results,
                          det.compliance_results, det.topology_results>>
               Holds(k, r) == \E j \in DOMAIN lists[k] : lists[k][j].rule_id = r.rule_id
           IN  /\ \A i \in DOMAIN results :
                     Cardinality({k \in DOMAIN lists : Holds(k, results[i])}) = 1
               /\ det.total_rules_executed = Len(results)
               /\ det.rules_passed + det.rules_failed = det.total_rules_executed
               /\ det.rules_failed >= CountWhere(results, LAMBDA r : ~r.passed)

ReEnabledByStep(id) ==
    /\ id \in RegisteredIds(rules)
    /\ ~get_rule(rules, id).enabled
    /\ \E design \in Designs :
          \E i \in DOMAIN SelectRules(rules', design, NoFilter) :
              SelectRules(rules', design, NoFilter)[i].rule_id = id

\* the step is a call of enable_rule(id) or of enable_category for the
\* category of rule id
ExplicitEnable(id) ==
    \/ RegistryCall("enable_rule") /\ ret'.id = id
    \/ RegistryCall("enable_category") /\ ret'.category = get_rule(rules, id).category

\* C27: a disabled rule stays disabled until it is explicitly enabled: no
\* step other than enable_rule(id) or enable_category of its category makes
\* an unfiltered execute_rules evaluate a rule that was disabled before the
\* step; registering the rule again does not re-enable it.
C27_DisabledStaysDisabled ==
    [][\A id \in RuleIds : ReEnabledByStep(id) => ExplicitEnable(id)]_vars

\* C28: a call of execute_rules for a design on which the is_applicable of a
\* rule raises is not aborted: it returns results, among them one for every
\* other rule of the starting set that passes the filters and applies to the
\* design.
C28_ApplicabilityFailureIsolated ==
    (pc = "done" /\ req.entry = "execute_rules") =>
        /\ out.kind = "results"
        /\ \A i \in DOMAIN ReachApplicability(rulesAtSelection, req.filter) :
              LET rule == ReachApplicability(rulesAtSelection, req.filter)[i]
              IN  rule.rule_id \in req.design.applicable =>
                    \E j \in DOMAIN out.value : out.value[j].rule_id = rule.rule_id

\* C29: the rules a run of execute_rules evaluates are those selected when
\* the run started: whatever enable, disable, register and unregister calls
\* interleave with it, the run evaluates the rules of its selection in
\* their order, each once, and returns exactly one result per rule selected
\* at its start, built from that rule.
C29_RunWorksOnSnapshot ==
    (pc # "idle" /\ req.entry = "execute_rules") =>
        LET snapshot == SelectRules(rulesAtSelection, req.design, req.filter)
        IN  /\ selected = snapshot
            /\ Len(results) <= Len(snapshot)
            /\ Len(invoked) = Len(results)
            /\ \A i \in DOMAIN results :
                  /\ invoked[i].rule_id = snapshot[i].rule_id
                  /\ results[i].rule_id = snapshot[i].rule_id
                  /\ results[i].category = snapshot[i].category
            /\ pc = "done" =>
                  /\ out.kind = "results"
                  /\ Len(out.value) = Len(snapshot)

\* a run that selected two rules has returned two results although rule 1
\* was unregistered and rule 2 disabled while it was under way
C29_Witness ==
    /\ pc = "done"
    /\ req.entry = "execute_rules"
    /\ Len(results) = 2
    /\ results[1].rule_id = 1
    /\ RegisteredIds(rulesAtSelection) = {1, 2}
    /\ RegisteredIds(rules) = {2}
    /\ ~get_rule(rules, 2).enabled
    /\ get_rule(rulesAtSelection, 2).enabled

\* the number of checked requests of the client let through at a time t with
\* from <= t < from + length
PassedWithin(lim, client_id, from, length) ==
    Cardinality({i \in DOMAIN lim.passed[client_id] :
                    /\ from <= lim.passed[client_id][i]
                    /\ lim.passed[client_id][i] < from + length})

\* C30: for every client, RateLimitMiddleware lets through at most
\* requests_per_minute checked requests within any interval of one minute
\* and at most requests_per_hour within any interval of one hour; a request
\* answered with 429 raises no counter, and a request of one client leaves
\* the buckets of every other client as they were.
C30_RateLimitBound ==
    [][
        /\ \A c \in Clients, from \in 0..MaxTicks :
             /\ PassedWithin(limiter', c, from, Minute) <= limiter.requests_per_minute
             /\ PassedWithin(limiter', c, from, Hour) <= limiter.requests_per_hour
        /\ limiter'.last.status = 429 =>
             /\ limiter'.passed = limiter.passed
             /\ \A c \in Clients :
                   /\ limiter'.minute_buckets[c].count <= limiter.minute_buckets[c].count
                   /\ limiter'.hour_buckets[c].count <= limiter.hour_buckets[c].count
        /\ \A c \in Clients :
             (limiter'.last.client # c \/ limiter'.now # limiter.now) =>
                 /\ limiter'.minute_buckets[c] = limiter.minute_buckets[c]
                 /\ limiter'.hour_buckets[c] = limiter.hour_buckets[c]
                 /\ limiter'.passed[c] = limiter.passed[c]
    ]_vars

====
